---- MODULE Spec2Model ----
(***************************************************************************)
(* The node's local key-management wallet                                  *)
(* (shared/services/wallet/local-wallet.go): one LocalWallet facade, the   *)
(* wallet file at walletPath, and the password provider it consults.       *)
(*                                                                         *)
(* Optional Go values (a nil pointer, a nil slice, a nil map) are the      *)
(* empty tuple; a present value v is the one-element tuple <<v>>.          *)
(***************************************************************************)
EXTENDS Integers, Sequences, FiniteSets, TLC

None == <<>>
Some(x) == <<x>>

----------------------------------------------------------------------------
(* Bounds of the model                                                     *)

\* wallet indices passed to Initialize / Recover / TestRecovery: 0..MaxWalletIndex
MaxWalletIndex == 1
\* validator indices whose keys may be derived and cached: 0..MaxValidatorIndex
MaxValidatorIndex == 0

\* largest value the next-account counter is driven to
MaxNextAccount == 1
WalletIndices == 0..MaxWalletIndex
ValidatorIndices == 0..MaxValidatorIndex

\* mnemonics a caller may supply: two that pass bip39.IsMnemonicValid, one that does not
ValidMnemonics == {"m1", "m2"}
Mnemonics == ValidMnemonics \cup {"bad"}

\* what the password provider can hold; "" is "no password set" (GetPassword fails)
Passwords == {"p1", "p2"}
NoPassword == ""

\* the random UUIDs uuid.New() may draw; "u0" is the zero UUID of a zero-valued record
UUIDs == {"u1"}
ZeroUUID == "u0"

----------------------------------------------------------------------------
(* Program constants                                                       *)

DefaultNodeKeyPath == "m/44'/60'/0'/0/%d"
LedgerLiveNodeKeyPath == "m/44'/60'/%d/0/0"
\* the path templates a caller may pass; "" is what a caller passing no template gives
PathTemplates == {"", LedgerLiveNodeKeyPath}

\* the (derivationPath, walletIndex) pairs a caller may pass
Accounts == PathTemplates \X WalletIndices
\* the one pair used where the key caches are exercised
LedgerAccounts == {<<LedgerLiveNodeKeyPath, MaxWalletIndex>>}

\* encryptor.Name() and encryptor.Version() of the keystore-v4 encryptor
EncryptorName == "keystore"
EncryptorVersion == 4

----------------------------------------------------------------------------
(* The collaborators, by what they compute                                 *)

\* faulty variant: the mnemonic is never validated
AnyMnemonicValid(mnemonic) == TRUE

\* bip39.IsMnemonicValid
IsMnemonicValid(mnemonic) == mnemonic \in ValidMnemonics

\* bip39.NewSeed(mnemonic, ""): a deterministic function of the mnemonic
NewSeed(mnemonic) == Some(<<"seed", mnemonic>>)

\* hdkeychain.NewMaster(seed, MainNetParams): a deterministic function of the
\* seed. It fails only for a seed shorter than 16 or longer than 64 bytes;
\* every seed bip39.NewSeed returns is 64 bytes long, so it succeeds on every
\* seed the wallet ever holds.
NewMaster(s) == Some(<<"mk", s[1]>>)

\* encryptor.Encrypt(seed, password): the cipher blob. It opens again only
\* under the password it was made with.
Encrypt(s, pw) == Some([secret |-> s[1], key |-> pw])

\* encryptor.Decrypt(crypto, password): (seed, err). A nil map, or a blob made
\* under another password, gives (nil, err).
Decrypt(crypto, pw) ==
    IF crypto # None /\ crypto[1].key = pw
    THEN [seed |-> Some(crypto[1].secret), err |-> FALSE]
    ELSE [seed |-> None, err |-> TRUE]

----------------------------------------------------------------------------
(* localWalletStore and its JSON form                                      *)

\* the zero value new(localWalletStore) points to
ZeroStore ==
    [Crypto |-> None, Name |-> "", Version |-> 0, UUID |-> ZeroUUID,
     DerivationPath |-> "", WalletIndex |-> 0, NextAccount |-> 0]

\* faulty variant: the counter is not read from the document
UnmarshalNoCounter(doc) ==
    [Crypto |-> doc.crypto, Name |-> doc.name, Version |-> doc.version,
     UUID |-> doc.uuid, NextAccount |-> 0,
     DerivationPath |-> IF "derivationPath" \in doc.fields THEN doc.derivationPath ELSE "",
     WalletIndex |-> IF "walletIndex" \in doc.fields THEN doc.walletIndex ELSE 0]

\* faulty variant: the crypto field is not written to the document
MarshalNoCrypto(store) ==
    [crypto |-> None, name |-> store.Name, version |-> store.Version,
     uuid |-> store.UUID, next_account |-> store.NextAccount,
     fields |-> (IF store.DerivationPath # "" THEN {"derivationPath"} ELSE {})
                \cup (IF store.WalletIndex # 0 THEN {"walletIndex"} ELSE {}),
     derivationPath |-> store.DerivationPath,
     walletIndex |-> store.WalletIndex]

\* json.Marshal(w.ws): derivationPath and walletIndex are `omitempty`, so an
\* empty path and a zero index are left out of the document.
Marshal(store) ==
    [crypto |-> store.Crypto, name |-> store.Name, version |-> store.Version,
     uuid |-> store.UUID, next_account |-> store.NextAccount,
     fields |-> (IF store.DerivationPath # "" THEN {"derivationPath"} ELSE {})
                \cup (IF store.WalletIndex # 0 THEN {"walletIndex"} ELSE {}),
     derivationPath |-> store.DerivationPath,
     walletIndex |-> store.WalletIndex]

\* json.Unmarshal(wsBytes, w.ws) into a zero-valued record: a field the
\* document does not carry keeps its zero value.
Unmarshal(doc) ==
    [Crypto |-> doc.crypto, Name |-> doc.name, Version |-> doc.version,
     UUID |-> doc.uuid, NextAccount |-> doc.next_account,
     DerivationPath |-> IF "derivationPath" \in doc.fields THEN doc.derivationPath ELSE "",
     WalletIndex |-> IF "walletIndex" \in doc.fields THEN doc.walletIndex ELSE 0]

\* the file at walletPath: absent, a complete JSON document, or a file that
\* was truncated by os.WriteFile and not (completely) written afterwards
\* FileMode = 0600: the permission bits Save passes to os.WriteFile
FileMode == 384
\* permission bits a file at walletPath may carry that Save did not choose:
\* 0644 (readable by group and others), 0200 (not readable by its owner)
WorldReadableMode == 420
WriteOnlyMode == 128
FileModes == {FileMode, WorldReadableMode, WriteOnlyMode}

\* bit 0400: the owner may read;  bits 0077: group or others have some access
OwnerReadable(mode) == (mode \div 256) % 2 = 1
OwnerOnly(mode) == mode % 64 = 0

\* `mode` is the permission bits of the file (0 while there is none); a file
\* Save created has FileMode
NoFile == [kind |-> "absent", doc |-> Marshal(ZeroStore), mode |-> 0]
TruncatedFile == [kind |-> "truncated", doc |-> Marshal(ZeroStore), mode |-> FileMode]
JSONFile(store) == [kind |-> "json", doc |-> Marshal(store), mode |-> FileMode]

\* os.ReadFile(w.walletPath) returns an error: there is no file, or the file
\* may not be read
ReadFileFails(file) == file.kind = "absent" \/ ~OwnerReadable(file.mode)

----------------------------------------------------------------------------
VARIABLES
    walletFile,     \* content of the file at w.walletPath
    password,       \* what w.pm.GetPassword() returns now (NoPassword: an error)
    ws,             \* w.ws   : None or Some(localWalletStore)
    seed,           \* w.seed : None or Some(seed)
    mk,             \* w.mk   : None or Some(master key)
    nodeKey,        \* w.nodeKey with w.nodeKeyPath : None or Some(key)
    validatorKeys,  \* w.validatorKeys : validator index -> None or Some(key)
    keystores,      \* w.keystores : client name -> None or Some(keystore)
    chainID,        \* the value of the big.Int w.chainID points to
    held,           \* the big.Int a caller got from GetChainID: None, or its value
                    \* and whether it is the object w.chainID points to
    last,           \* the last call on the facade: operation, error, and
                    \* whether it consulted the password provider
    everInit,       \* history: Initialize/Recover/TestRecovery succeeded at some time
    saved,          \* history: None, or Some(<<seed, password>>) of the facade whose
                    \* Save, right after its Initialize/Recover, wrote the file now on disk
    pc,             \* where a goroutine running Reload step by step stands in loadStore
    pre,            \* history: (ws, seed, mk) when that Reload was entered
    seen,           \* what a goroutine reading the wallet meanwhile found: None or Some(<<ws, seed, mk>>)
    calls           \* per goroutine running Initialize/Recover step by step: where it
                    \* stands and its locals (mnemonic, encryptedSeed)

raceVars == <<pc, pre, seen, calls>>
vars == <<walletFile, password, ws, seed, mk, nodeKey, validatorKeys, keystores, chainID, held, last,
          everInit,
          saved, pc, pre, seen, calls>>

\* func (w *LocalWallet) IsInitialized() bool
IsInitializedOf(s, k, m) == s # None /\ k # None /\ m # None
IsInitialized == IsInitializedOf(ws, seed, mk)

\* a call: the operation, the mnemonic it was given (where it takes one), the
\* error it returned ("nil": none), whether it consulted the password provider,
\* and what it returned besides
CallWith(op, arg, err, pm, ret) ==
    [op |-> op, arg |-> arg, err |-> err, pm |-> pm, ret |-> ret]
Call(op, err, pm, ret) == CallWith(op, "", err, pm, ret)

----------------------------------------------------------------------------
(* loadStore, as the function it computes from the file, the password and  *)
(* the fields it finds in the facade                                       *)

\* "Upgrade legacy wallets to include derivation paths"
\* faulty variant: the store is taken as decoded, without the upgrade
UpgradeLegacyNone(store) == store

UpgradeLegacy(store) ==
    IF store.DerivationPath = ""
    THEN [store EXCEPT !.DerivationPath = DefaultNodeKeyPath]
    ELSE store

LoadResult(s, k, m, ok, err, pm) ==
    [ws |-> s, seed |-> k, mk |-> m, ok |-> ok, err |-> err, pm |-> pm]

\* func (w *LocalWallet) loadStore() (bool, error), from the decrypt step on:
\* w.seed takes whatever Decrypt returned (nil on failure) before err is
\* looked at; w.mk is only assigned after a successful decryption.
DecryptStep(store, pw, m) ==
    LET d == Decrypt(store.Crypto, pw) IN
    IF d.err
    THEN LoadResult(Some(store), d.seed, m, FALSE, "decrypt", TRUE)
    ELSE LoadResult(Some(store), d.seed, NewMaster(d.seed), TRUE, "nil", TRUE)

\* func (w *LocalWallet) loadStore() (bool, error)
\*   file: what os.ReadFile finds;  pw: what GetPassword gives;
\*   s, k, m: w.ws, w.seed, w.mk on entry.
LoadStore(file, pw, s, k, m) ==
    IF ReadFileFails(file)
    THEN LoadResult(s, k, m, FALSE, "nil", FALSE)
    ELSE IF file.kind # "json"
    THEN \* w.ws = new(localWalletStore) is assigned before Unmarshal fails
         LoadResult(Some(ZeroStore), k, m, FALSE, "decode", FALSE)
    ELSE LET store == UpgradeLegacy(Unmarshal(file.doc)) IN
         IF pw = NoPassword
         THEN LoadResult(Some(store), k, m, FALSE, "password", TRUE)
         ELSE DecryptStep(store, pw, m)

----------------------------------------------------------------------------
(* State after construction: NewLocalWallet on a machine with no wallet    *)
(* file, where loadStore finds nothing and leaves every field nil.         *)

NoValidatorKeys == [i \in ValidatorIndices |-> None]

\* the goroutines that call Initialize or Recover on the one facade, and a
\* goroutine that is in neither
Callers == {1, 2}
NoCall == [pc |-> "idle", mnemonic |-> "", encryptedSeed |-> None]

\* chainId uint, the argument of NewLocalWallet: the network the node is
\* configured for, and the values a caller may give to a big.Int it holds
ConfiguredChainID == 1
ChainIDs == {ConfiguredChainID, 17000}

\* the validator clients a keystore is registered for, and the keystores
KeystoreNames == {"lighthouse", "prysm"}
Keystores == {"ks1", "ks2"}

\* keystores: map[string]keystore.Keystore{}
NoKeystores == [name \in KeystoreNames |-> None]

Init ==
    /\ walletFile = NoFile
    /\ password \in Passwords
    /\ ws = None
    /\ seed = None
    /\ mk = None
    /\ nodeKey = None
    /\ validatorKeys = NoValidatorKeys
    /\ keystores = NoKeystores
    /\ chainID = ConfiguredChainID
    /\ held = None
    /\ last = Call("NewLocalWallet", "nil", FALSE, None)
    /\ everInit = FALSE
    /\ saved = None
    /\ pc = "idle"
    /\ pre = None
    /\ seen = None
    /\ calls = [g \in Callers |-> NoCall]

\* NewLocalWallet returned (nil, err): there is no facade to call
Constructed == ~(last.op = "NewLocalWallet" /\ last.err # "nil")

\* func NewLocalWallet(...) (*LocalWallet, error): a fresh facade on the same
\* file (a second instance, or the daemon restarted); the facade is only
\* returned when loadStore gave no error.
NewLocalWallet ==
    LET r == LoadStore(walletFile, password, None, None, None) IN
    /\ IF r.err = "nil"
       THEN /\ ws' = r.ws
            /\ seed' = r.seed
            /\ mk' = r.mk
       ELSE /\ ws' = None
            /\ seed' = None
            /\ mk' = None
    /\ nodeKey' = None
    /\ validatorKeys' = NoValidatorKeys
    /\ keystores' = NoKeystores
    /\ last' = Call("NewLocalWallet", r.err, r.pm, None)
    /\ UNCHANGED <<walletFile, saved, password, chainID, held, everInit, raceVars>>

\* faulty variant: a wallet file that does not decrypt is removed
ReloadRemovesUndecryptable ==
    LET r == LoadStore(walletFile, password, ws, seed, mk) IN
    /\ Constructed
    /\ ws' = r.ws
    /\ seed' = r.seed
    /\ mk' = r.mk
    /\ last' = Call("Reload", r.err, r.pm, None)
    /\ walletFile' = IF r.err = "decrypt" THEN NoFile ELSE walletFile
    /\ saved' = IF r.err = "decrypt" THEN None ELSE saved
    /\ UNCHANGED <<password, nodeKey, validatorKeys, keystores, chainID, held, everInit, raceVars>>

\* func (w *LocalWallet) Reload() error
Reload ==
    LET r == LoadStore(walletFile, password, ws, seed, mk) IN
    /\ Constructed
    /\ ws' = r.ws
    /\ seed' = r.seed
    /\ mk' = r.mk
    /\ last' = Call("Reload", r.err, r.pm, None)
    /\ UNCHANGED <<walletFile, saved, password, nodeKey, validatorKeys, keystores, chainID, held, everInit, raceVars>>

\* func (w *LocalWallet) GetInitialized() (bool, error)
GetInitialized ==
    /\ Constructed
    /\ IF IsInitialized
       THEN /\ last' = Call("GetInitialized", "nil", FALSE, Some(TRUE))
            /\ UNCHANGED <<ws, seed, mk>>
       ELSE LET r == LoadStore(walletFile, password, ws, seed, mk) IN
            /\ ws' = r.ws
            /\ seed' = r.seed
            /\ mk' = r.mk
            /\ last' = Call("GetInitialized", r.err, r.pm, Some(r.ok))
    /\ UNCHANGED <<walletFile, saved, password, nodeKey, validatorKeys, keystores, chainID, held, everInit, raceVars>>

----------------------------------------------------------------------------
(* Initialize, Recover, TestRecovery                                       *)

\* faulty variant: the store is always built for the default template
NewStoreDefaultPath(crypto, id, derivationPath, walletIndex) ==
    [Crypto |-> crypto, Name |-> EncryptorName, Version |-> EncryptorVersion,
     UUID |-> id, DerivationPath |-> DefaultNodeKeyPath,
     WalletIndex |-> walletIndex, NextAccount |-> 0]

NewStore(crypto, id, derivationPath, walletIndex) ==
    [Crypto |-> crypto, Name |-> EncryptorName, Version |-> EncryptorVersion,
     UUID |-> id, DerivationPath |-> derivationPath,
     WalletIndex |-> walletIndex, NextAccount |-> 0]

\* faulty variant: the wallet password is used as the BIP-39 passphrase of the seed
InitializeStoreSalted(derivationPath, walletIndex, mnemonic, pw, encOk, id, s) ==
    LET k == Some(<<"seed", mnemonic, pw>>)
        m == NewMaster(k)
    IN  IF pw = NoPassword
        THEN LoadResult(s, k, m, FALSE, "password", TRUE)
        ELSE IF ~encOk
        THEN LoadResult(s, k, m, FALSE, "encrypt", TRUE)
        ELSE LoadResult(Some([Crypto |-> Encrypt(k, pw), Name |-> EncryptorName,
                              Version |-> EncryptorVersion, UUID |-> id,
                              DerivationPath |-> derivationPath,
                              WalletIndex |-> walletIndex, NextAccount |-> 0]),
                        k, m, TRUE, "nil", TRUE)

\* func (w *LocalWallet) initializeStore(derivationPath, walletIndex, mnemonic) error
\*   pw: what GetPassword gives; encOk: whether encryptor.Encrypt succeeds;
\*   id: the UUID uuid.New() draws; s: w.ws on entry.
\* w.seed and w.mk are assigned first; w.ws only after the seed is encrypted.
InitializeStore(derivationPath, walletIndex, mnemonic, pw, encOk, id, s) ==
    LET k == NewSeed(mnemonic)
        m == NewMaster(k)
    IN  IF pw = NoPassword
        THEN LoadResult(s, k, m, FALSE, "password", TRUE)
        ELSE IF ~encOk
        THEN LoadResult(s, k, m, FALSE, "encrypt", TRUE)
        ELSE LoadResult(Some(NewStore(Encrypt(k, pw), id, derivationPath, walletIndex)),
                        k, m, TRUE, "nil", TRUE)

\* faulty variant: the check looks for the wallet file instead of the loaded material
AlreadyInitializedByFile == walletFile.kind # "absent"

\* "Check wallet is not initialized", the first statement of Initialize and of Recover
AlreadyInitialized == IsInitialized

\* func (w *LocalWallet) Initialize(derivationPath, walletIndex) (string, error)
\* The mnemonic bip39.NewMnemonic draws is any valid one.
Initialize(accounts) ==
    /\ Constructed
    /\ \E account \in accounts,
          mnemonic \in ValidMnemonics, encOk \in BOOLEAN, id \in UUIDs :
        IF AlreadyInitialized
        THEN /\ last' = Call("Initialize", "initialized", FALSE, None)
             /\ UNCHANGED <<ws, seed, mk, everInit>>
        ELSE LET r == InitializeStore(account[1], account[2], mnemonic,
                                      password, encOk, id, ws) IN
             /\ ws' = r.ws
             /\ seed' = r.seed
             /\ mk' = r.mk
             /\ last' = Call("Initialize", r.err, r.pm,
                             IF r.ok THEN Some(mnemonic) ELSE None)
             /\ everInit' = (everInit \/ r.ok)
    /\ UNCHANGED <<walletFile, saved, password, nodeKey, validatorKeys, keystores, chainID, held, raceVars>>

\* func (w *LocalWallet) Recover(derivationPath, walletIndex, mnemonic) error
Recover(accounts) ==
    /\ Constructed
    /\ \E account \in accounts,
          mnemonic \in Mnemonics, encOk \in BOOLEAN, id \in UUIDs :
        IF AlreadyInitialized
        THEN /\ last' = CallWith("Recover", mnemonic, "initialized", FALSE, None)
             /\ UNCHANGED <<ws, seed, mk, everInit>>
        ELSE IF ~IsMnemonicValid(mnemonic)
        THEN /\ last' = CallWith("Recover", mnemonic, "mnemonic", FALSE, None)
             /\ UNCHANGED <<ws, seed, mk, everInit>>
        ELSE LET r == InitializeStore(account[1], account[2], mnemonic,
                                      password, encOk, id, ws) IN
             /\ ws' = r.ws
             /\ seed' = r.seed
             /\ mk' = r.mk
             /\ last' = CallWith("Recover", mnemonic, r.err, r.pm, None)
             /\ everInit' = (everInit \/ r.ok)
    /\ UNCHANGED <<walletFile, saved, password, nodeKey, validatorKeys, keystores, chainID, held, raceVars>>

\* func (w *LocalWallet) TestRecovery(derivationPath, walletIndex, mnemonic) error
\* No IsInitialized check, no password, no encryption: the store it builds
\* has no Crypto.
TestRecovery(accounts) ==
    /\ Constructed
    /\ \E account \in accounts,
          mnemonic \in Mnemonics, id \in UUIDs :
        IF ~IsMnemonicValid(mnemonic)
        THEN /\ last' = CallWith("TestRecovery", mnemonic, "mnemonic", FALSE, None)
             /\ UNCHANGED <<ws, seed, mk, everInit>>
        ELSE /\ seed' = NewSeed(mnemonic)
             /\ mk' = NewMaster(NewSeed(mnemonic))
             /\ ws' = Some(NewStore(None, id, account[1], account[2]))
             /\ last' = CallWith("TestRecovery", mnemonic, "nil", FALSE, None)
             /\ everInit' = TRUE
    /\ UNCHANGED <<walletFile, saved, password, nodeKey, validatorKeys, keystores, chainID, held, raceVars>>

----------------------------------------------------------------------------
(* Save and Delete                                                         *)

\* os.WriteFile(name, data, perm) opens the file with O_WRONLY|O_CREATE|O_TRUNC
\* and then writes: "open" fails before the file is touched, "write" fails (or
\* the process dies) after the truncation and before the data is complete.
WriteOutcomes == {"ok", "open", "write"}

\* perm is only used when the file is created: a file that exists keeps the
\* permission bits it has
WriteFile(file, store, io) ==
    LET mode == IF file.kind = "absent" THEN FileMode ELSE file.mode IN
    CASE io = "ok" -> [JSONFile(store) EXCEPT !.mode = mode]
      [] io = "open" -> file
      [] io = "write" -> [TruncatedFile EXCEPT !.mode = mode]

\* faulty variant: the document shows the seed the wallet holds, under no password
StringShowsSeed ==
    /\ Constructed
    /\ last' = IF ~IsInitialized
               THEN Call("String", "uninitialized", FALSE, None)
               ELSE Call("String", "nil", FALSE,
                         Some([Marshal(ws[1]) EXCEPT !.crypto = Encrypt(seed, NoPassword)]))
    /\ UNCHANGED <<walletFile, saved, password, ws, seed, mk, nodeKey, validatorKeys, keystores, chainID, held,
                   everInit, raceVars>>

\* func (w *LocalWallet) String() (string, error): the JSON document of the store
String ==
    /\ Constructed
    /\ last' = IF ~IsInitialized
               THEN Call("String", "uninitialized", FALSE, None)
               ELSE Call("String", "nil", FALSE, Some(Marshal(ws[1])))
    /\ UNCHANGED <<walletFile, saved, password, ws, seed, mk, nodeKey, validatorKeys, keystores, chainID, held,
                   everInit, raceVars>>

\* faulty variant: Save looks at the store record only, not at the seed and the master key
SaveChecksStoreOnly ==
    /\ Constructed
    /\ IF ws = None
       THEN /\ last' = Call("Save", "uninitialized", FALSE, None)
            /\ UNCHANGED <<walletFile, saved>>
       ELSE \E io \in WriteOutcomes :
            /\ walletFile' = WriteFile(walletFile, ws[1], io)
            /\ last' = Call("Save", IF io = "ok" THEN "nil" ELSE "io", FALSE, None)
            /\ saved' = IF io = "open" THEN saved ELSE None
    /\ UNCHANGED <<password, ws, seed, mk, nodeKey, validatorKeys, keystores, chainID, held, everInit, raceVars>>

\* faulty variant: Save without its IsInitialized check (json.Marshal of a nil store
\* writes "null", which decodes to the zero record)
SaveUnchecked ==
    /\ Constructed
    /\ \E io \in WriteOutcomes :
         /\ walletFile' = WriteFile(walletFile, IF ws = None THEN ZeroStore ELSE ws[1], io)
         /\ last' = Call("Save", IF io = "ok" THEN "nil" ELSE "io", FALSE, None)
         /\ saved' = IF io = "open" THEN saved ELSE None
    /\ UNCHANGED <<password, ws, seed, mk, nodeKey, validatorKeys, keystores, chainID, held, everInit, raceVars>>

\* func (w *LocalWallet) Save() error
Save ==
    /\ Constructed
    /\ IF ~IsInitialized
       THEN /\ last' = Call("Save", "uninitialized", FALSE, None)
            /\ UNCHANGED <<walletFile, saved>>
       ELSE \E io \in WriteOutcomes :
            /\ walletFile' = WriteFile(walletFile, ws[1], io)
            /\ last' = Call("Save", IF io = "ok" THEN "nil" ELSE "io", FALSE, None)
            /\ saved' = CASE io = "open" -> saved
                           [] io = "write" -> None
                           [] io = "ok" ->
                                IF last.op \in {"Initialize", "Recover"} /\ last.err = "nil"
                                THEN Some(<<seed, password>>)
                                ELSE None
    /\ UNCHANGED <<password, ws, seed, mk, nodeKey, validatorKeys, keystores, chainID, held, everInit, raceVars>>

\* os.Stat and os.Remove: either may fail for a file that exists
DeleteOutcomes == {"ok", "stat", "remove"}

\* faulty variant: os.Remove without the os.Stat before it, so that a missing file is an error
DeleteNoStat ==
    /\ Constructed
    /\ IF walletFile.kind = "absent"
       THEN /\ last' = Call("Delete", "io", FALSE, None)
            /\ UNCHANGED <<walletFile, saved>>
       ELSE \E io \in DeleteOutcomes :
            /\ walletFile' = IF io = "ok" THEN NoFile ELSE walletFile
            /\ saved' = IF io = "ok" THEN None ELSE saved
            /\ last' = Call("Delete", IF io = "ok" THEN "nil" ELSE "io", FALSE, None)
    /\ UNCHANGED <<password, ws, seed, mk, nodeKey, validatorKeys, keystores, chainID, held, everInit, raceVars>>

\* faulty variant: a Delete that removed the file also forgets the wallet
DeleteForgetsWallet ==
    /\ Constructed
    /\ IF walletFile.kind = "absent"
       THEN /\ last' = Call("Delete", "nil", FALSE, None)
            /\ UNCHANGED <<walletFile, saved, ws, seed, mk, nodeKey>>
       ELSE \E io \in DeleteOutcomes :
            /\ walletFile' = IF io = "ok" THEN NoFile ELSE walletFile
            /\ saved' = IF io = "ok" THEN None ELSE saved
            /\ ws' = IF io = "ok" THEN None ELSE ws
            /\ seed' = IF io = "ok" THEN None ELSE seed
            /\ mk' = IF io = "ok" THEN None ELSE mk
            /\ nodeKey' = IF io = "ok" THEN None ELSE nodeKey
            /\ last' = Call("Delete", IF io = "ok" THEN "nil" ELSE "io", FALSE, None)
    /\ UNCHANGED <<password, validatorKeys, keystores, chainID, held, everInit, raceVars>>

\* func (w *LocalWallet) Delete() error
Delete ==
    /\ Constructed
    /\ IF walletFile.kind = "absent"
       THEN /\ last' = Call("Delete", "nil", FALSE, None)
            /\ UNCHANGED <<walletFile, saved>>
       ELSE \E io \in DeleteOutcomes :
            /\ walletFile' = IF io = "ok" THEN NoFile ELSE walletFile
            /\ saved' = IF io = "ok" THEN None ELSE saved
            /\ last' = Call("Delete", IF io = "ok" THEN "nil" ELSE "io", FALSE, None)
    /\ UNCHANGED <<password, ws, seed, mk, nodeKey, validatorKeys, keystores, chainID, held, everInit, raceVars>>

----------------------------------------------------------------------------
(* Key derivation and signing.  getNodePrivateKey and the validator-key    *)
(* lookup live in files of the package that are not part of the sources    *)
(* at hand; they follow sections 4.2 and 4.4 of the specification.         *)

\* DeriveNodeKey(masterKey, pathTemplate, accountIndex): a function of its inputs
DeriveNodeKey(m, store) ==
    [master |-> m[1], path |-> <<store.DerivationPath, store.WalletIndex>>]

\* DeriveValidatorKey(seed, validatorIndex): a function of its inputs
DeriveValidatorKey(k, i) == [secret |-> k[1], index |-> i]

\* GetNodeKey: "returns cached key if present for that exact path+index;
\* otherwise derives, caches, and returns it. Fails NotInitialized if no seed
\* is loaded."  The result: the key (or None), and the cache afterwards.
GetNodePrivateKey(s, k, m, cache) ==
    IF /\ cache # None
       /\ s # None
       /\ cache[1].path = <<s[1].DerivationPath, s[1].WalletIndex>>
    THEN [key |-> cache, cache |-> cache]
    ELSE IF ~IsInitializedOf(s, k, m)
    THEN [key |-> None, cache |-> cache]
    ELSE [key |-> Some(DeriveNodeKey(m, s[1])), cache |-> Some(DeriveNodeKey(m, s[1]))]

\* types.SignTx(&tx, types.NewLondonSigner(chain), key): the signature binds
\* the transaction to the key and to the chain id of the signer
SignTx(key, chain) == [key |-> key, chainID |-> chain]

\* types.Sender(types.NewLondonSigner(chain), signedTx): the key whose address
\* the signature recovers to under that chain id, None when it does not verify
Sender(signedTx, chain) ==
    IF signedTx.chainID = chain THEN Some(signedTx.key) ELSE None

\* func (w *LocalWallet) Sign(serializedTx []byte) ([]byte, error)
\* txOk: whether serializedTx unmarshals. `ret` is the signed transaction.
Sign ==
    /\ Constructed
    /\ LET r == GetNodePrivateKey(ws, seed, mk, nodeKey) IN
       /\ nodeKey' = r.cache
       /\ \E txOk \in BOOLEAN :
            last' = IF r.key = None THEN Call("Sign", "uninitialized", FALSE, None)
                    ELSE IF ~txOk THEN Call("Sign", "tx", FALSE, None)
                    ELSE Call("Sign", "nil", FALSE, Some(SignTx(r.key[1], chainID)))
    /\ UNCHANGED <<walletFile, saved, password, ws, seed, mk, validatorKeys, keystores, chainID, held, everInit, raceVars>>

\* func (w *LocalWallet) SignMessage(message string) ([]byte, error)
SignMessage ==
    /\ Constructed
    /\ LET r == GetNodePrivateKey(ws, seed, mk, nodeKey) IN
       /\ nodeKey' = r.cache
       /\ last' = IF r.key = None THEN Call("SignMessage", "uninitialized", FALSE, None)
                  ELSE Call("SignMessage", "nil", FALSE, r.key)
    /\ UNCHANGED <<walletFile, saved, password, ws, seed, mk, validatorKeys, keystores, chainID, held, everInit, raceVars>>

\* The validator-key lookup: the cached key of that index if there is one,
\* otherwise (wallet initialized) the key derived from the seed, which it caches.
GetValidatorKey ==
    /\ Constructed
    /\ \E i \in ValidatorIndices :
        IF validatorKeys[i] # None
        THEN /\ last' = Call("GetValidatorKey", "nil", FALSE, validatorKeys[i])
             /\ UNCHANGED validatorKeys
        ELSE IF ~IsInitialized
        THEN /\ last' = Call("GetValidatorKey", "uninitialized", FALSE, None)
             /\ UNCHANGED validatorKeys
        ELSE /\ validatorKeys' =
                    [validatorKeys EXCEPT ![i] = Some(DeriveValidatorKey(seed, i))]
             /\ last' = Call("GetValidatorKey", "nil", FALSE,
                             Some(DeriveValidatorKey(seed, i)))
    /\ UNCHANGED <<walletFile, saved, password, ws, seed, mk, nodeKey, keystores, chainID, held, everInit,
                   raceVars>>

\* faulty variant: the big.Int of the wallet itself is handed out
GetChainIDShared ==
    /\ Constructed
    /\ held' = Some([value |-> chainID, shared |-> TRUE])
    /\ last' = Call("GetChainID", "nil", FALSE, Some(chainID))
    /\ UNCHANGED <<walletFile, saved, password, ws, seed, mk, nodeKey, validatorKeys,
                   keystores, chainID, everInit, raceVars>>

\* func (w *LocalWallet) GetChainID() *big.Int: a new big.Int set to the
\* value of w.chainID
GetChainID ==
    /\ Constructed
    /\ held' = Some([value |-> chainID, shared |-> FALSE])
    /\ last' = Call("GetChainID", "nil", FALSE, Some(chainID))
    /\ UNCHANGED <<walletFile, saved, password, ws, seed, mk, nodeKey, validatorKeys,
                   keystores, chainID, everInit, raceVars>>

\* the caller of GetChainID sets the big.Int it got to another value; a
\* big.Int that is the wallet's own changes for the wallet as well
MutateChainID ==
    /\ held # None
    /\ \E value \in ChainIDs \ {held[1].value} :
         /\ held' = Some([held[1] EXCEPT !.value = value])
         /\ chainID' = IF held[1].shared THEN value ELSE chainID
    /\ last' = Call("MutateChainID", "nil", FALSE, None)
    /\ UNCHANGED <<walletFile, saved, password, ws, seed, mk, nodeKey, validatorKeys,
                   keystores, everInit, raceVars>>

\* faulty variant: the registry is made anew for the keystore that is added
AddKeystoreAlone ==
    /\ Constructed
    /\ \E name \in KeystoreNames, ks \in Keystores :
         /\ keystores' = [NoKeystores EXCEPT ![name] = Some(ks)]
         /\ last' = CallWith("AddKeystore", name, "nil", FALSE, None)
    /\ UNCHANGED <<walletFile, saved, password, ws, seed, mk, nodeKey, validatorKeys,
                   chainID, held, everInit, raceVars>>

\* func (w *LocalWallet) AddKeystore(name string, ks keystore.Keystore)
AddKeystore ==
    /\ Constructed
    /\ \E name \in KeystoreNames, ks \in Keystores :
         /\ keystores' = [keystores EXCEPT ![name] = Some(ks)]
         /\ last' = CallWith("AddKeystore", name, "nil", FALSE, None)
    /\ UNCHANGED <<walletFile, saved, password, ws, seed, mk, nodeKey, validatorKeys,
                   chainID, held, everInit, raceVars>>

----------------------------------------------------------------------------
(* The environment: the operator changes or removes the stored password    *)

SetPassword ==
    /\ \E pw \in (Passwords \cup {NoPassword}) \ {password} : password' = pw
    /\ last' = Call("SetPassword", "nil", FALSE, None)
    /\ UNCHANGED <<walletFile, saved, ws, seed, mk, nodeKey, validatorKeys, keystores, chainID, held, everInit, raceVars>>

----------------------------------------------------------------------------
(* The wallet's lifecycle: every operation that reads or writes the store, *)
(* the seed, the master key or the file. The key caches stay as they were  *)
(* constructed; no lifecycle operation reads them.                         *)
Next ==
    \/ NewLocalWallet
    \/ Reload
    \/ GetInitialized
    \/ Initialize(Accounts)
    \/ Recover(Accounts)
    \/ TestRecovery(Accounts)
    \/ Save
    \/ String
    \/ Delete
    \/ SetPassword

Spec == Init /\ [][Next]_vars

(* The lifecycle together with signing and key derivation, which fill the  *)
(* key caches; wallets are created for one account convention.             *)
NextKeys ==
    \/ NewLocalWallet
    \/ Reload
    \/ GetInitialized
    \/ Initialize(LedgerAccounts)
    \/ Recover(LedgerAccounts)
    \/ TestRecovery(LedgerAccounts)
    \/ Save
    \/ Delete
    \/ Sign
    \/ SignMessage
    \/ GetValidatorKey
    \/ SetPassword

SpecKeys == Init /\ [][NextKeys]_vars

(* One wallet with its key caches and its keystore registry: the wallet    *)
(* is created, saved, deleted, loaded again and signs, while validator     *)
(* clients register their keystores.                                       *)
NextKeystores ==
    \/ NewLocalWallet
    \/ Reload
    \/ Initialize(LedgerAccounts)
    \/ Save
    \/ Delete
    \/ Sign
    \/ GetValidatorKey
    \/ AddKeystore

SpecKeystores == Init /\ [][NextKeystores]_vars

(* Signing for the configured chain, while a caller holds and changes the  *)
(* chain id it got from the wallet.                                        *)
NextChain ==
    \/ NewLocalWallet
    \/ Reload
    \/ Initialize(LedgerAccounts)
    \/ TestRecovery(LedgerAccounts)
    \/ Save
    \/ Delete
    \/ Sign
    \/ GetChainID
    \/ MutateChainID
    \/ SetPassword

SpecChain == Init /\ [][NextChain]_vars

(* The wallet file on a disk where the permission bits of the file change  *)
(* under the wallet: the operator, a backup tool or an older installation  *)
(* left the file with other bits than Save would give it.                  *)

Chmod ==
    /\ walletFile.kind # "absent"
    /\ \E mode \in FileModes \ {walletFile.mode} :
         walletFile' = [walletFile EXCEPT !.mode = mode]
    /\ last' = Call("Chmod", "nil", FALSE, None)
    /\ UNCHANGED <<saved, password, ws, seed, mk, nodeKey, validatorKeys, keystores, chainID, held, everInit,
                   raceVars>>

NextDisk ==
    \/ NewLocalWallet
    \/ Reload
    \/ GetInitialized
    \/ Initialize(LedgerAccounts)
    \/ Save
    \/ Delete
    \/ Chmod
    \/ SetPassword

SpecDisk == Init /\ [][NextDisk]_vars

----------------------------------------------------------------------------
(* The next-account counter.  The operation that mints the next account    *)
(* lives in a file of the package that is not part of the sources at hand; *)
(* it follows section 3 of the specification: the counter "is only         *)
(* advanced by an explicit create-next-account operation".                 *)

\* create next account: hands out the counter's value and advances the
\* counter of the in-memory store by one
CreateNextAccount ==
    /\ Constructed
    /\ IF ~IsInitialized
       THEN /\ last' = Call("CreateNextAccount", "uninitialized", FALSE, None)
            /\ UNCHANGED ws
       ELSE /\ ws[1].NextAccount < MaxNextAccount
            /\ ws' = Some([ws[1] EXCEPT !.NextAccount = @ + 1])
            /\ last' = Call("CreateNextAccount", "nil", FALSE, Some(ws[1].NextAccount))
    /\ UNCHANGED <<walletFile, saved, password, seed, mk, nodeKey, validatorKeys, keystores, chainID, held,
                   everInit, raceVars>>

\* the accounts of the wallets whose counter is advanced: no template with
\* index 0, and the Ledger Live template with a non-zero index
CounterAccounts == {<<"", 0>>} \cup LedgerAccounts

(* The lifecycle of wallets whose counter is advanced between the calls.   *)
NextAccounts ==
    \/ NewLocalWallet
    \/ Reload
    \/ Initialize(CounterAccounts)
    \/ TestRecovery(CounterAccounts)
    \/ Save
    \/ Delete
    \/ CreateNextAccount
    \/ SetPassword

SpecAccounts == Init /\ [][NextAccounts]_vars

----------------------------------------------------------------------------
(* Reload running concurrently with a reader.  LocalWallet has no mutex:   *)
(* loadStore writes w.ws, w.seed and w.mk one after the other, and a       *)
(* goroutine in Sign, SignMessage or a node-key lookup reads them with no  *)
(* synchronisation.  Each write of loadStore is one step here; the file    *)
(* and the password do not change while the call runs.                     *)

Material == <<ws, seed, mk>>

Return(err, pm) ==
    /\ pc' = "done"
    /\ last' = Call("Reload", err, pm, None)

Step(next) ==
    /\ pc' = next
    /\ UNCHANGED last

\* line 329: wsBytes, err := os.ReadFile(w.walletPath)
LoadRead ==
    /\ Constructed
    /\ pc = "idle"
    /\ pre' = Some(Material)
    /\ seen' = None
    /\ IF ReadFileFails(walletFile) THEN Return("nil", FALSE) ELSE Step("alloc")
    /\ UNCHANGED <<walletFile, saved, password, ws, seed, mk, nodeKey, validatorKeys, keystores, chainID, held, everInit, calls>>

\* line 335: w.ws = new(localWalletStore)
LoadAlloc ==
    /\ pc = "alloc"
    /\ ws' = Some(ZeroStore)
    /\ Step("decode")
    /\ UNCHANGED <<walletFile, saved, password, seed, mk, nodeKey, validatorKeys, keystores, chainID, held, everInit, pre, seen, calls>>

\* lines 336-338: json.Unmarshal(wsBytes, w.ws)
LoadDecode ==
    /\ pc = "decode"
    /\ IF walletFile.kind # "json"
       THEN /\ Return("decode", FALSE)
            /\ UNCHANGED ws
       ELSE /\ ws' = Some(Unmarshal(walletFile.doc))
            /\ Step("upgrade")
    /\ UNCHANGED <<walletFile, saved, password, seed, mk, nodeKey, validatorKeys, keystores, chainID, held, everInit, pre, seen, calls>>

\* lines 341-343: the legacy upgrade
LoadUpgrade ==
    /\ pc = "upgrade"
    /\ ws' = Some(UpgradeLegacy(ws[1]))
    /\ Step("password")
    /\ UNCHANGED <<walletFile, saved, password, seed, mk, nodeKey, validatorKeys, keystores, chainID, held, everInit, pre, seen, calls>>

\* lines 346-349: password, err := w.pm.GetPassword()
LoadPassword ==
    /\ pc = "password"
    /\ IF password = NoPassword THEN Return("password", TRUE) ELSE Step("decrypt")
    /\ UNCHANGED <<walletFile, saved, password, ws, seed, mk, nodeKey, validatorKeys, keystores, chainID, held, everInit, pre, seen, calls>>

\* lines 352-355: w.seed, err = w.encryptor.Decrypt(w.ws.Crypto, password)
LoadDecrypt ==
    /\ pc = "decrypt"
    /\ LET d == Decrypt(ws[1].Crypto, password) IN
       /\ seed' = d.seed
       /\ IF d.err THEN Return("decrypt", TRUE) ELSE Step("master")
    /\ UNCHANGED <<walletFile, saved, password, ws, mk, nodeKey, validatorKeys, keystores, chainID, held, everInit, pre, seen, calls>>

\* lines 358-364: w.mk, err = hdkeychain.NewMaster(w.seed, ...)
LoadMaster ==
    /\ pc = "master"
    /\ mk' = NewMaster(seed)
    /\ Return("nil", TRUE)
    /\ UNCHANGED <<walletFile, saved, password, ws, seed, nodeKey, validatorKeys, keystores, chainID, held, everInit, pre, seen, calls>>

\* Reload has returned to its caller
ReloadReturn ==
    /\ pc = "done"
    /\ pc' = "idle"
    /\ pre' = None
    /\ seen' = None
    /\ UNCHANGED <<walletFile, saved, password, ws, seed, mk, nodeKey, validatorKeys, keystores, chainID, held, last, everInit, calls>>

\* A goroutine in Sign, SignMessage or a node-key lookup reads the wallet's
\* material while Reload runs.
Observe ==
    /\ pc \notin {"idle", "done"}
    /\ seen = None
    /\ seen' = Some(Material)
    /\ UNCHANGED <<walletFile, saved, password, ws, seed, mk, nodeKey, validatorKeys, keystores, chainID, held, last,
                   everInit, pc, pre, calls>>

NextRace ==
    \/ pc = "idle" /\ NewLocalWallet
    \/ pc = "idle" /\ Initialize(Accounts)
    \/ pc = "idle" /\ TestRecovery(Accounts)
    \/ pc = "idle" /\ Save
    \/ pc = "idle" /\ Delete
    \/ pc = "idle" /\ SetPassword
    \/ LoadRead
    \/ LoadAlloc
    \/ LoadDecode
    \/ LoadUpgrade
    \/ LoadPassword
    \/ LoadDecrypt
    \/ LoadMaster
    \/ ReloadReturn
    \/ Observe

SpecRace == Init /\ [][NextRace]_vars

\* The steps above compute what loadStore computes as a whole.
StepsAreLoadStore ==
    pc = "done" =>
        LET r == LoadStore(walletFile, password, pre[1][1], pre[1][2], pre[1][3]) IN
        /\ Material = <<r.ws, r.seed, r.mk>>
        /\ last = Call("Reload", r.err, r.pm, None)

----------------------------------------------------------------------------
(* Initialize and Recover called by two goroutines on one facade.          *)
(* LocalWallet has no mutex: between the IsInitialized check of Initialize *)
(* or Recover and the last assignment of initializeStore, another          *)
(* goroutine runs. Each read or write of w.ws, w.seed and w.mk is one step *)
(* here. Recover differs from Initialize in where the mnemonic comes from  *)
(* only; a call is made with a valid mnemonic for one account.             *)

Goto(g, next) == calls' = [calls EXCEPT ![g].pc = next]

\* the call of goroutine g returns err
InitReturns(g, err, pm) ==
    /\ calls' = [calls EXCEPT ![g].pc = IF err = "nil" THEN "ok" ELSE "failed"]
    /\ last' = Call("Initialize", err, pm,
                    IF err = "nil" THEN Some(calls[g].mnemonic) ELSE None)

\* lines 149-151, 179-181: if w.IsInitialized() { return ... "already initialized" }
\* and the mnemonic is generated (lines 154-162) or validated (lines 184-186)
InitCheck(g) ==
    /\ Constructed
    /\ calls[g].pc = "idle"
    /\ IF AlreadyInitialized
       THEN /\ calls' = [calls EXCEPT ![g].pc = "failed"]
            /\ last' = Call("Initialize", "initialized", FALSE, None)
       ELSE /\ \E mnemonic \in ValidMnemonics :
                 calls' = [calls EXCEPT ![g] = [pc |-> "seed", mnemonic |-> mnemonic,
                                                encryptedSeed |-> None]]
            /\ UNCHANGED last
    /\ UNCHANGED <<walletFile, saved, password, ws, seed, mk, nodeKey, validatorKeys, keystores, chainID, held,
                   everInit, pc, pre, seen>>

\* line 372: w.seed = bip39.NewSeed(mnemonic, "")
InitSeed(g) ==
    /\ calls[g].pc = "seed"
    /\ seed' = NewSeed(calls[g].mnemonic)
    /\ Goto(g, "master")
    /\ UNCHANGED <<walletFile, saved, password, ws, mk, nodeKey, validatorKeys, keystores, chainID, held, last,
                   everInit, pc, pre, seen>>

\* lines 375-379: w.mk, err = hdkeychain.NewMaster(w.seed, ...)
InitMaster(g) ==
    /\ calls[g].pc = "master"
    /\ mk' = NewMaster(seed)
    /\ Goto(g, "password")
    /\ UNCHANGED <<walletFile, saved, password, ws, seed, nodeKey, validatorKeys, keystores, chainID, held, last,
                   everInit, pc, pre, seen>>

\* lines 382-385: password, err := w.pm.GetPassword()
\* lines 388-391: encryptedSeed, err := w.encryptor.Encrypt(w.seed, password)
InitEncrypt(g) ==
    /\ calls[g].pc = "password"
    /\ IF password = NoPassword
       THEN InitReturns(g, "password", TRUE)
       ELSE \E encOk \in BOOLEAN :
            IF ~encOk
            THEN InitReturns(g, "encrypt", TRUE)
            ELSE /\ calls' = [calls EXCEPT ![g].pc = "store",
                                           ![g].encryptedSeed = Encrypt(seed, password)]
                 /\ UNCHANGED last
    /\ UNCHANGED <<walletFile, saved, password, ws, seed, mk, nodeKey, validatorKeys, keystores, chainID, held,
                   everInit, pc, pre, seen>>

\* lines 394-402: w.ws = &localWalletStore{...}, and the call returns nil
InitStore(g) ==
    /\ calls[g].pc = "store"
    /\ \E account \in LedgerAccounts, id \in UUIDs :
         ws' = Some(NewStore(calls[g].encryptedSeed, id, account[1], account[2]))
    /\ InitReturns(g, "nil", TRUE)
    /\ everInit' = TRUE
    /\ UNCHANGED <<walletFile, saved, password, seed, mk, nodeKey, validatorKeys, keystores, chainID, held,
                   pc, pre, seen>>

\* the caller of goroutine g has its result; the goroutine is free for another call
InitDone(g) ==
    /\ calls[g].pc \in {"ok", "failed"}
    /\ calls' = [calls EXCEPT ![g] = NoCall]
    /\ UNCHANGED <<walletFile, saved, password, ws, seed, mk, nodeKey, validatorKeys, keystores, chainID, held, last,
                   everInit, pc, pre, seen>>

\* no goroutine is inside Initialize or Recover
NoCalls == \A g \in Callers : calls[g].pc = "idle"

NextInit ==
    \/ \E g \in Callers : InitCheck(g)
    \/ \E g \in Callers : InitSeed(g)
    \/ \E g \in Callers : InitMaster(g)
    \/ \E g \in Callers : InitEncrypt(g)
    \/ \E g \in Callers : InitStore(g)
    \/ \E g \in Callers : InitDone(g)
    \/ NoCalls /\ NewLocalWallet
    \/ NoCalls /\ Save
    \/ NoCalls /\ SetPassword

SpecInit == Init /\ [][NextInit]_vars

----------------------------------------------------------------------------
(* The claims                                                              *)

LoadOps == {"NewLocalWallet", "GetInitialized", "Reload"}
NoKeysCached == nodeKey = None /\ validatorKeys = NoValidatorKeys

\* C1: fail-closed reload. After a Reload that returned the decryption error,
\* the wallet is not initialized and holds no key material: no seed, no
\* master key, no cached node key, no cached validator key.
C1_FailClosedReload ==
    (last.op = "Reload" /\ last.err = "decrypt") =>
        /\ ~IsInitialized
        /\ seed = None
        /\ mk = None
        /\ NoKeysCached

\* C2: round trip. Once a facade has saved right after its Initialize or
\* Recover, a facade constructed on that file under the same password, and
\* any Reload under it, is initialized and holds the seed and master key the
\* saving facade held.
C2_RoundTrip ==
    (/\ last.op \in {"NewLocalWallet", "Reload"}
     /\ saved # None
     /\ password = saved[1][2]) =>
        /\ last.err = "nil"
        /\ IsInitialized
        /\ seed = saved[1][1]
        /\ mk = NewMaster(saved[1][1])

\* a fresh facade has loaded the file another facade saved after Initialize/Recover
C2_Witness ==
    /\ last.op = "NewLocalWallet"
    /\ saved # None
    /\ password = saved[1][2]
    /\ IsInitialized
    /\ ws[1].WalletIndex # 0
    /\ ws[1].DerivationPath = LedgerLiveNodeKeyPath

\* C3: a load that fails at the decrypt step leaves (ws, seed, mk) either
\* entirely unset, or entirely set and consistent: the master key is the
\* seed's, and the seed is what the store's Crypto holds.
MaterialConsistent ==
    /\ IsInitialized
    /\ mk = NewMaster(seed)
    /\ ws[1].Crypto # None
    /\ ws[1].Crypto[1].secret = seed[1]
MaterialUnset == ws = None /\ seed = None /\ mk = None

C3_NoPartialLoad ==
    (last.op \in LoadOps /\ last.err = "decrypt" /\ Constructed) =>
        (MaterialUnset \/ MaterialConsistent)

\* C4: Reload clears the key caches. Across every Reload, successful or not,
\* no cached node key of the master key held before it and no cached
\* validator key of the seed held before it is left in the caches.
C4_ReloadClearsCaches ==
    [][last'.op = "Reload" =>
        /\ (nodeKey' # None /\ mk # None) => nodeKey'[1].master # mk[1]
        /\ \A i \in ValidatorIndices :
              (validatorKeys'[i] # None /\ seed # None)
                  => validatorKeys'[i][1].secret # seed[1]]_vars

\* C5: Reload is atomic for concurrent readers. What a reader found while a
\* Reload ran is the material as it was before the Reload or as it is after.
C5_ReloadAtomic ==
    (pc = "done" /\ seen # None) => (seen = pre \/ seen = Some(Material))

\* C6: Save never leaves a damaged file. Across every Save, failed ones
\* included, the file holds its previous content or the complete new record.
C6_SaveNeverDamages ==
    [][last'.op = "Save" =>
        (walletFile' = walletFile \/ (ws # None /\ walletFile' = JSONFile(ws[1])))]_vars

\* C7 as claimed: the file exists if and only if the wallet is initialized:
\* no initialized facade without a file, no file without an initialization.
C7_FileIffInitialized ==
    /\ IsInitialized => walletFile.kind # "absent"
    /\ walletFile.kind # "absent" => everInit

\* C7 as amended: a wallet file exists only if the wallet was initialized or
\* recovered at some earlier time.
C7_FileOnlyAfterInit ==
    walletFile.kind # "absent" => everInit

\* a Save has just created the file
C7_Witness ==
    /\ last.op = "Save"
    /\ last.err = "nil"
    /\ walletFile.kind = "json"
    /\ everInit

\* C8: a Reload performed while no store file exists returns no error and
\* leaves the facade uninitialized, whatever state it was in.
C8_ReloadNoFile ==
    (last.op = "Reload" /\ walletFile.kind = "absent") =>
        (last.err = "nil" /\ ~IsInitialized)

\* C9: on an initialized wallet Initialize and Recover return the
\* already-initialized error and no mnemonic, do not consult the password
\* provider, and leave store record, seed, master key and file as they were.
C9_RejectedWhenInitialized ==
    [][(IsInitialized /\ last'.op \in {"Initialize", "Recover"}) =>
        /\ last'.err = "initialized"
        /\ last'.ret = None
        /\ ~last'.pm
        /\ UNCHANGED <<ws, seed, mk, walletFile>>]_vars

\* Initialize or Recover was just rejected on an initialized wallet
C9_Witness ==
    /\ last.op \in {"Initialize", "Recover"}
    /\ last.err = "initialized"
    /\ IsInitialized

\* C10: Recover and TestRecovery given a mnemonic that fails validation return
\* an error and change nothing: store record, seed, master key, key caches,
\* file and the initialized status are as before.
C10_InvalidMnemonicNoChange ==
    [][(last'.op \in {"Recover", "TestRecovery"} /\ ~(last'.arg \in ValidMnemonics)) =>
        /\ last'.err # "nil"
        /\ UNCHANGED <<ws, seed, mk, nodeKey, validatorKeys, walletFile>>
        /\ IsInitialized' = IsInitialized]_vars

\* TestRecovery was just refused an invalid mnemonic on an initialized wallet
C10_Witness ==
    /\ last.op = "TestRecovery"
    /\ last.arg = "bad"
    /\ last.err = "mnemonic"
    /\ IsInitialized

\* C11: recovery is reproducible. A successful Recover ends with the seed
\* and the master key that the mnemonic alone determines, whatever the
\* password, the state of the file and the identifier drawn for the store:
\* two successful recoveries of one mnemonic end with the same material.
C11_RecoverReproducible ==
    (last.op = "Recover" /\ last.err = "nil") =>
        /\ IsInitialized
        /\ seed = NewSeed(last.arg)
        /\ mk = NewMaster(NewSeed(last.arg))

\* a wallet recovered under the second password, next to a file an earlier
\* wallet left behind
C11_Witness ==
    /\ last.op = "Recover"
    /\ last.err = "nil"
    /\ last.arg = "m2"
    /\ password = "p2"
    /\ walletFile.kind = "json"

\* C12: a successful Initialize or Recover builds a store whose next-account
\* counter is 0 and whose derivation path and wallet index are the ones
\* passed in, and leaves the wallet file, present or absent, as it was.
C12_FreshStoreNoDisk ==
    [][(last'.op \in {"Initialize", "Recover"} /\ last'.err = "nil") =>
        \A account \in Accounts :
            (Initialize({account}) \/ Recover({account})) =>
                /\ ws' # None
                /\ ws'[1].NextAccount = 0
                /\ ws'[1].DerivationPath = account[1]
                /\ ws'[1].WalletIndex = account[2]
                /\ walletFile' = walletFile]_vars

\* a wallet initialized for the Ledger Live template and a non-zero index,
\* with a file on disk that it did not write
C12_Witness ==
    /\ last.op \in {"Initialize", "Recover"}
    /\ last.err = "nil"
    /\ ws[1].DerivationPath = LedgerLiveNodeKeyPath
    /\ ws[1].WalletIndex = MaxWalletIndex
    /\ walletFile.kind = "json"
    /\ walletFile # JSONFile(ws[1])

\* C13: a load whose decryption fails leaves the wallet file as it was, and
\* the same call on the same file under the same password fails the same way.
C13_WrongPasswordNoDiskChange ==
    [][(last'.op \in LoadOps /\ last'.err = "decrypt") =>
        /\ walletFile' = walletFile
        /\ LoadStore(walletFile', password', ws', seed', mk').err = "decrypt"
        /\ LoadStore(walletFile', password', None, None, None).err = "decrypt"]_vars

\* a Reload under the wrong password of a file encrypted under the other one
C13_Witness ==
    /\ last.op = "Reload"
    /\ last.err = "decrypt"
    /\ walletFile.kind = "json"
    /\ walletFile.doc.crypto # None
    /\ password \in Passwords
    /\ walletFile.doc.crypto[1].key # password

\* the operations of the facade other than the one that mints an account
FacadeOps ==
    {"NewLocalWallet", "GetInitialized", "Reload", "Initialize", "Recover",
     "TestRecovery", "Save", "Delete", "Sign", "SignMessage", "AddKeystore"}

\* C14: the next-account counter never decreases. Over every step, the
\* counter of the in-memory store and the counter of the store on disk are
\* at least what they were before the step, and a step of Initialize,
\* Recover, TestRecovery, Save, Reload, Delete, Sign, SignMessage or
\* AddKeystore brings no counter value above those the stores held before.
C14_NextAccountMonotonic ==
    [][/\ (ws # None /\ ws' # None) => ws'[1].NextAccount >= ws[1].NextAccount
       /\ (walletFile.kind = "json" /\ walletFile'.kind = "json") =>
              walletFile'.doc.next_account >= walletFile.doc.next_account
       /\ (last'.op \in FacadeOps /\ ws' # None) =>
              \/ ws'[1].NextAccount = 0
              \/ ws # None /\ ws'[1].NextAccount <= ws[1].NextAccount
              \/ walletFile.kind = "json" /\ ws'[1].NextAccount <= walletFile.doc.next_account]_vars

\* C15: Delete is idempotent. A Delete that finds no file returns success
\* and changes neither the file nor the wallet; a Delete that returns
\* success leaves no file; and a Delete that follows a successful Delete
\* returns success.
C15_DeleteIdempotent ==
    [][last'.op = "Delete" =>
        /\ walletFile.kind = "absent" =>
              /\ last'.err = "nil"
              /\ UNCHANGED <<walletFile, ws, seed, mk>>
        /\ last'.err = "nil" => walletFile'.kind = "absent"
        /\ (last.op = "Delete" /\ last.err = "nil") =>
              (last'.err = "nil" /\ walletFile'.kind = "absent")]_vars

\* Delete has returned success on a facade that never had a wallet, so that
\* there never was a file to remove
C15_Witness ==
    /\ last.op = "Delete"
    /\ last.err = "nil"
    /\ ~everInit
    /\ walletFile.kind = "absent"

\* C16: Delete leaves the facade's memory as it was, whether it succeeds or
\* not: the store record, the seed, the master key, the key caches, the
\* keystore registry and hence IsInitialized are the same before and after;
\* an initialized wallet still has the node key to sign with and still
\* passes the check of Save.
C16_DeleteKeepsMemory ==
    [][last'.op = "Delete" =>
        /\ UNCHANGED <<ws, seed, mk, nodeKey, validatorKeys, keystores>>
        /\ IsInitialized' = IsInitialized
        /\ IsInitialized =>
              GetNodePrivateKey(ws', seed', mk', nodeKey').key # None]_vars

\* Delete has removed the file of an initialized wallet whose caches and
\* registry are filled
C16_Witness ==
    /\ last.op = "Delete"
    /\ last.err = "nil"
    /\ walletFile.kind = "absent"
    /\ IsInitialized
    /\ nodeKey # None
    /\ \E i \in ValidatorIndices : validatorKeys[i] # None
    /\ \E name \in KeystoreNames : keystores[name] # None

\* C17: Save requires an initialized wallet. Whenever IsInitialized is
\* false, Save and String return the not-initialized error, String returns
\* no document, and Save leaves the file, present or absent, as it was.
C17_SaveRequiresInitialized ==
    [][(~IsInitialized /\ last'.op \in {"Save", "String"}) =>
        /\ last'.err = "uninitialized"
        /\ last'.ret = None
        /\ walletFile' = walletFile]_vars

\* Save was refused on a facade that holds a store record but no seed (a
\* load that failed to decrypt), with another wallet's file on disk
C17_Witness ==
    /\ last.op = "Save"
    /\ last.err = "uninitialized"
    /\ ws # None
    /\ seed = None
    /\ walletFile.kind = "json"

\* C18: access is exclusive during initialization. Of two calls of
\* Initialize or Recover that race on an uninitialized wallet at most one
\* succeeds, and whoever finds the wallet initialized (a concurrent Save,
\* String or Sign, which run between any two steps) finds the seed and the
\* master key of the wallet whose store record it is.
C18_ExclusiveInitialization ==
    /\ ~(\A g \in Callers : calls[g].pc = "ok")
    /\ IsInitialized => MaterialConsistent

\* C19: legacy upgrade on read. A load that reads a store file without a
\* derivationPath field ends with the default template "m/44'/60'/0'/0/%d"
\* in the in-memory store, a load of a file that carries a derivationPath
\* ends with exactly that path, and neither rewrites the file.
C19_LegacyUpgradeOnRead ==
    [][(/\ walletFile.kind = "json"
        /\ \/ last'.op = "Reload"
           \/ last'.op = "GetInitialized" /\ ~IsInitialized
           \/ last'.op = "NewLocalWallet" /\ last'.err = "nil") =>
        /\ ws' # None
        /\ ws'[1].DerivationPath =
              IF "derivationPath" \in walletFile.doc.fields
              THEN walletFile.doc.derivationPath
              ELSE DefaultNodeKeyPath
        /\ walletFile' = walletFile]_vars

\* a wallet loaded from a file without the field: the default template in
\* memory, and still no field in the file
C19_Witness ==
    /\ last.op = "Reload"
    /\ last.err = "nil"
    /\ walletFile.kind = "json"
    /\ "derivationPath" \notin walletFile.doc.fields
    /\ ws[1].DerivationPath = DefaultNodeKeyPath

\* what identifies a store and its account convention
Metadata(store) ==
    <<store.UUID, store.DerivationPath, store.WalletIndex, store.NextAccount>>

\* C20: store metadata survives persistence. When Save has written the
\* store, a Reload on the same facade and the load of a new facade, under
\* any password, end with an in-memory store of the same UUID, derivation
\* path, wallet index and next-account counter as the store that was saved;
\* Save itself leaves the store as it is.
C20_MetadataSurvives ==
    [][(last'.op = "Save" /\ last'.err = "nil") =>
        /\ ws' = ws
        /\ \A pw \in Passwords \cup {NoPassword} :
             LET same == LoadStore(walletFile', pw, ws', seed', mk')
                 new == LoadStore(walletFile', pw, None, None, None)
             IN  /\ same.ws # None
                 /\ new.ws # None
                 /\ Metadata(same.ws[1]) = Metadata(ws[1])
                 /\ Metadata(new.ws[1]) = Metadata(ws[1])]_vars

\* C20 as the code has it: the UUID, the wallet index and the next-account
\* counter come back as they were saved, and so does a derivation path that
\* is not empty; a store saved with the empty path comes back with the
\* default template.
C20_MetadataSurvivesUpgrade ==
    [][(last'.op = "Save" /\ last'.err = "nil") =>
        /\ ws' = ws
        /\ \A pw \in Passwords \cup {NoPassword} :
             LET same == LoadStore(walletFile', pw, ws', seed', mk')
                 new == LoadStore(walletFile', pw, None, None, None)
                 path == IF ws[1].DerivationPath = ""
                         THEN DefaultNodeKeyPath
                         ELSE ws[1].DerivationPath
                 metadata == <<ws[1].UUID, path, ws[1].WalletIndex, ws[1].NextAccount>>
             IN  /\ same.ws # None
                 /\ new.ws # None
                 /\ Metadata(same.ws[1]) = metadata
                 /\ Metadata(new.ws[1]) = metadata]_vars

\* a wallet for the Ledger Live template whose counter was advanced, saved
\* and loaded again: memory and file agree
C20_Witness ==
    /\ last.op = "Reload"
    /\ last.err = "nil"
    /\ IsInitialized
    /\ walletFile = JSONFile(ws[1])
    /\ ws[1].DerivationPath = LedgerLiveNodeKeyPath
    /\ ws[1].WalletIndex = MaxWalletIndex
    /\ ws[1].NextAccount = MaxNextAccount

\* C21: every failure is reported. A Reload, GetInitialized or
\* NewLocalWallet that finds a wallet file it cannot read returns an I/O
\* error; only when there is no file does the load return no error with the
\* wallet uninitialized.
C21_UnreadableFileReported ==
    [][(/\ walletFile.kind # "absent"
        /\ ~OwnerReadable(walletFile.mode)
        /\ \/ last'.op \in {"Reload", "NewLocalWallet"}
           \/ last'.op = "GetInitialized" /\ ~IsInitialized) =>
        last'.err = "io"]_vars

\* C22: after every successful Save the wallet file is accessible to the
\* owning user only, with mode 0600, whether Save created the file or wrote
\* over a file that was there with wider permissions.
C22_SavedFileOwnerOnly ==
    [][(last'.op = "Save" /\ last'.err = "nil") =>
        /\ walletFile'.kind = "json"
        /\ OwnerOnly(walletFile'.mode)
        /\ walletFile'.mode = FileMode]_vars

\* a crypto field that gives nothing away: none at all, or the blob the
\* encryptor made of a seed under a password
IsEncrypted(crypto) ==
    \/ crypto = None
    \/ \E mnemonic \in ValidMnemonics, pw \in Passwords :
          crypto = Encrypt(NewSeed(mnemonic), pw)

\* C23: the plaintext seed never leaves the facade. What an operation of
\* the lifecycle returns besides its error is nothing, a boolean
\* (GetInitialized), the mnemonic (Initialize, at creation) or the store's
\* document (String); the document String returns and the document in the
\* wallet file are the store record, whose crypto field is the encrypted
\* seed and never the seed or the master key.
C23_SeedNeverLeaves ==
    /\ last.ret # None =>
          \/ last.op = "GetInitialized" /\ last.ret[1] \in BOOLEAN
          \/ last.op = "Initialize" /\ last.err = "nil" /\ last.ret[1] \in ValidMnemonics
          \/ /\ last.op = "String"
             /\ last.ret[1] = Marshal(ws[1])
             /\ IsEncrypted(last.ret[1].crypto)
    /\ walletFile.kind = "json" => IsEncrypted(walletFile.doc.crypto)

\* String has returned the document of an initialized wallet that is also on disk
C23_Witness ==
    /\ last.op = "String"
    /\ last.err = "nil"
    /\ seed # None
    /\ last.ret[1].crypto = Encrypt(seed, password)
    /\ walletFile = JSONFile(ws[1])

\* C24: chain-bound signing. A transaction Sign returns is signed with the
\* node key of the wallet under the chain id the wallet holds: it recovers
\* to that key under that chain id and verifies under no other; and the
\* chain id the wallet holds is the one it was constructed with, whatever a
\* caller does to the value GetChainID returned.
C24_ChainBoundSigning ==
    /\ chainID = ConfiguredChainID
    /\ (last.op = "Sign" /\ last.err = "nil") =>
          /\ last.ret # None
          /\ nodeKey # None
          /\ Sender(last.ret[1], chainID) = nodeKey
          /\ \A chain \in ChainIDs \ {chainID} : Sender(last.ret[1], chain) = None

\* Sign has returned a transaction while the caller holds a chain id it
\* changed after GetChainID returned it
C24_Witness ==
    /\ last.op = "Sign"
    /\ last.err = "nil"
    /\ held # None
    /\ held[1].value # ConfiguredChainID

\* C25: keystore registration is additive. AddKeystore(name, ks) makes name
\* map to ks, leaves what is registered under every other name, and changes
\* nothing else of the wallet or on disk; no other operation on the facade
\* changes the registry, so that the names registered with a facade only
\* grow in number.
C25_KeystoresAdditive ==
    [][/\ last'.op = "AddKeystore" =>
            /\ \E ks \in Keystores :
                 keystores' = [keystores EXCEPT ![last'.arg] = Some(ks)]
            /\ UNCHANGED <<ws, seed, mk, nodeKey, validatorKeys, walletFile>>
       /\ last'.op \notin {"AddKeystore", "NewLocalWallet"} => keystores' = keystores
       /\ last'.op # "NewLocalWallet" =>
            \A name \in KeystoreNames : keystores[name] # None => keystores'[name] # None]_vars

\* a second client has registered its keystore with an initialized wallet
\* that is saved on disk
C25_Witness ==
    /\ last.op = "AddKeystore"
    /\ \A name \in KeystoreNames : keystores[name] # None
    /\ IsInitialized
    /\ walletFile.kind = "json"

\* C26: seed and store are consistent. In every state in which
\* IsInitialized holds, the store record has an encrypted seed that opens,
\* under the password the provider now gives, to the seed in memory, and the
\* master key is the one of that seed.
C26_SeedStoreConsistent ==
    IsInitialized =>
        /\ ws[1].Crypto # None
        /\ Decrypt(ws[1].Crypto, password) = [seed |-> seed, err |-> FALSE]
        /\ mk = NewMaster(seed)

\* C27: a failed Initialize or Recover does not initialize the wallet. When
\* the call is made on a wallet that is not initialized and returns the
\* error of the password provider or of the encryptor, the wallet is still
\* not initialized and the seed and the master key are those of before.
C27_FailedInitNoChange ==
    [][(/\ ~IsInitialized
        /\ last'.op \in {"Initialize", "Recover"}
        /\ last'.err \in {"password", "encrypt"}) =>
        /\ ~IsInitialized'
        /\ UNCHANGED <<seed, mk>>]_vars

\* C28: a Reload that fails before it decrypts changes nothing in memory.
\* When Reload on an initialized wallet returns the decoding error or the
\* error of the password provider, the store record, the seed and the master
\* key are those of before, which is what a following Save writes.
C28_EarlyFailedReloadNoChange ==
    [][(/\ IsInitialized
        /\ last'.op = "Reload"
        /\ last'.err \in {"decode", "password"}) =>
        /\ UNCHANGED <<ws, seed, mk>>
        /\ IsInitialized']_vars

\* C29: every file Save writes can be loaded again. When Save succeeds, a
\* fresh facade on that file under the same password loads without error,
\* is initialized, and holds the seed the saving facade holds.
C29_SavedFileReloadable ==
    [][(last'.op = "Save" /\ last'.err = "nil") =>
        LET fresh == LoadStore(walletFile', password', None, None, None) IN
        /\ fresh.err = "nil"
        /\ IsInitializedOf(fresh.ws, fresh.seed, fresh.mk)
        /\ fresh.seed = seed]_vars

\* C30: TestRecovery works in memory only and respects the lifecycle. With a
\* valid mnemonic it leaves the wallet file as it is and does not consult
\* the password provider, and on a wallet that is initialized it leaves the
\* store record, the seed and the master key as they are.
C30_TestRecoveryRespectsLifecycle ==
    [][(last'.op = "TestRecovery" /\ IsMnemonicValid(last'.arg)) =>
        /\ walletFile' = walletFile
        /\ ~last'.pm
        /\ IsInitialized => UNCHANGED <<ws, seed, mk>>]_vars

====
